---- MODULE Spec2Model ----
(***************************************************************************)
(* A model of era5_to_ccpp_scm: the numerical core of convert_forcing.py   *)
(* (radiative heating, grid spacing, horizontal gradients, geostrophic     *)
(* wind, advection, the assembler era5_to_scm_forcing) and the             *)
(* convert_forcings command of cli.py with the files it writes.            *)
(*                                                                         *)
(* Floating-point numbers are modelled as exact rationals <<n, d>> in      *)
(* lowest terms with d > 0, extended with the IEEE non-finite values       *)
(* <<1, 0>> (+inf), <<-1, 0>> (-inf) and <<0, 0>> (NaN).  Rounding is not   *)
(* modelled.  Transcendental functions (sin, cos, the Exner function, the  *)
(* standard atmosphere) are tables over the arguments the model uses.      *)
(***************************************************************************)
EXTENDS Integers, Sequences, FiniteSets, TLC

VARIABLES
    pc,      \* the routine called last: "idle", "gradients", "advection", ...
    args,    \* arguments of the numerical routine called last
    ret,     \* what the routine returned
    fs,      \* the file system seen by convert_forcings: path -> container
    last     \* record of the latest convert_forcings / template call

vars == <<pc, args, ret, fs, last>>

(***************************************************************************)
(* Bounds of the model.                                                    *)
(***************************************************************************)
MaxVal == 1     \* field values are drawn from 0 .. MaxVal
NT == 2         \* number of time steps of a synthetic input
NL == 3         \* number of pressure levels of a synthetic input

(***************************************************************************)
(* Floating point as extended rationals.                                   *)
(***************************************************************************)
Abs(x) == IF x < 0 THEN -x ELSE x
Sgn(x) == IF x < 0 THEN -1 ELSE IF x > 0 THEN 1 ELSE 0

RECURSIVE GCD(_, _)
GCD(a, b) == IF b = 0 THEN a ELSE GCD(b, a % b)

NaN  == <<0, 0>>
PInf == <<1, 0>>
Zero == <<0, 1>>
One  == <<1, 1>>

IsFinite(a) == a[2] # 0

\* n / d as a float value (d may be 0: IEEE division)
Norm(n, d) ==
    IF d = 0 THEN <<Sgn(n), 0>>
    ELSE LET g == GCD(Abs(n), Abs(d))
         IN  <<Sgn(d) * (n \div g), Abs(d) \div g>>

R(i) == <<i, 1>>

Neg(a) == <<-a[1], a[2]>>

Mul(a, b) ==
    IF a[2] = 0 \/ b[2] = 0 THEN <<Sgn(a[1]) * Sgn(b[1]), 0>>
    ELSE IF a[1] = 0 \/ b[1] = 0 THEN Zero
    ELSE LET g1 == GCD(Abs(a[1]), b[2])
             g2 == GCD(Abs(b[1]), a[2])
         IN  <<(a[1] \div g1) * (b[1] \div g2), (a[2] \div g2) * (b[2] \div g1)>>

Recip(a) ==
    IF a[2] = 0 THEN (IF a[1] = 0 THEN NaN ELSE Zero)
    ELSE IF a[1] = 0 THEN PInf
    ELSE IF a[1] < 0 THEN <<-a[2], -a[1]>>
    ELSE <<a[2], a[1]>>

Div(a, b) == Mul(a, Recip(b))

Add(a, b) ==
    IF a[2] = 0 /\ b[2] = 0 THEN (IF a[1] = b[1] THEN a ELSE NaN)
    ELSE IF a[2] = 0 THEN a
    ELSE IF b[2] = 0 THEN b
    ELSE LET g == GCD(a[2], b[2])
         IN  Norm(a[1] * (b[2] \div g) + b[1] * (a[2] \div g), (a[2] \div g) * b[2])

Sub(a, b) == Add(a, Neg(b))

\* the == of floats: NaN equals nothing
FEq(a, b) == a = b /\ a # NaN

(***************************************************************************)
(* Arrays.  An array has named dimensions (an xarray.DataArray; a numpy    *)
(* array is read through its positions only), a shape, and a value for     *)
(* every index tuple; indices are 0-based as in the source.                *)
(***************************************************************************)
Rng(n) == 0 .. n - 1
Idx(shape) ==
    CASE Len(shape) = 0 -> {<<>>}
      [] Len(shape) = 1 -> {<<i>> : i \in Rng(shape[1])}
      [] Len(shape) = 2 -> {<<i, j>> : i \in Rng(shape[1]), j \in Rng(shape[2])}
      [] Len(shape) = 3 ->
           {<<i, j, k>> : i \in Rng(shape[1]), j \in Rng(shape[2]), k \in Rng(shape[3])}
      [] Len(shape) = 4 ->
           {<<i, j, k, l>> : i \in Rng(shape[1]), j \in Rng(shape[2]),
                             k \in Rng(shape[3]), l \in Rng(shape[4])}

PosOf(dims, d) == CHOOSE k \in 1 .. Len(dims) : dims[k] = d

HasDim(a, d) == \E k \in 1 .. Len(a.dims) : a.dims[k] = d

DropAt(s, k) == [i \in 1 .. Len(s) - 1 |-> IF i < k THEN s[i] ELSE s[i + 1]]

InsertAt(s, k, x) ==
    [i \in 1 .. Len(s) + 1 |-> IF i < k THEN s[i] ELSE IF i = k THEN x ELSE s[i - 1]]

\* DataArray.isel(d=i): select index i along dimension d, which disappears
Isel(a, d, i) ==
    LET k == PosOf(a.dims, d)
    IN  [dims  |-> DropAt(a.dims, k),
         shape |-> DropAt(a.shape, k),
         val   |-> [s \in Idx(DropAt(a.shape, k)) |-> a.val[InsertAt(s, k, i)]]]

\* .isel(latitude=i, longitude=j)
IselLL(a, i, j) == Isel(Isel(a, "latitude", i), "longitude", j)

\* .values[..., i, j]: the last two positions, whatever their names
LastTwo(a, i, j) ==
    LET n == Len(a.shape)
        sh == SubSeq(a.shape, 1, n - 2)
    IN  [dims  |-> SubSeq(a.dims, 1, n - 2),
         shape |-> sh,
         val   |-> [s \in Idx(sh) |-> a.val[s \o <<i, j>>]]]

\* DataArray.transpose(*order), order a permutation of the dimensions of a
TransposeTo(a, order) ==
    LET p == [k \in 1 .. Len(order) |-> PosOf(a.dims, order[k])]
        sh == [k \in 1 .. Len(order) |-> a.shape[p[k]]]
    IN  [dims  |-> order,
         shape |-> sh,
         val   |-> [s \in Idx(sh) |->
                      a.val[[j \in 1 .. Len(order) |->
                               s[CHOOSE k \in 1 .. Len(order) : p[k] = j]]]]]

\* a with its dimensions in the order they have in b
TransposeLike(a, b) == TransposeTo(a, b.dims)

\* ndarray.T
RevSeq(s) == [i \in 1 .. Len(s) |-> s[Len(s) + 1 - i]]
NumpyT(a) == TransposeTo(a, RevSeq(a.dims))

\* the arithmetic operator named op
Apply2(op, x, y) ==
    CASE op = "add" -> Add(x, y)
      [] op = "sub" -> Sub(x, y)
      [] op = "mul" -> Mul(x, y)
      [] op = "div" -> Div(x, y)

\* dimensions of b that a does not have, in b's order
RECURSIVE ExtraDims(_, _)
ExtraDims(a, bd) ==
    IF bd = <<>> THEN <<>>
    ELSE (IF HasDim(a, Head(bd)) THEN <<>> ELSE <<Head(bd)>>) \o ExtraDims(a, Tail(bd))

\* xarray arithmetic: operands are matched by dimension NAME; the result has
\* the dimensions of a, then those of b that a lacks
XrBin(op, a, b) ==
    LET ed == ExtraDims(a, b.dims)
        dims == a.dims \o ed
        sh == [k \in 1 .. Len(dims) |->
                 IF k <= Len(a.dims) THEN a.shape[k] ELSE b.shape[PosOf(b.dims, dims[k])]]
        pa(s) == [k \in 1 .. Len(a.dims) |-> s[k]]
        pb(s) == [k \in 1 .. Len(b.dims) |-> s[PosOf(dims, b.dims[k])]]
    IN  [dims |-> dims, shape |-> sh,
         val |-> [s \in Idx(sh) |-> Apply2(op, a.val[pa(s)], b.val[pb(s)])]]

\* numpy arithmetic on equal shapes (or an ndarray with a DataArray of the
\* same shape): operands are matched by POSITION; names are those of nm
NpBin(op, a, b, nm) ==
    [dims |-> nm.dims, shape |-> a.shape,
     val |-> [s \in Idx(a.shape) |-> Apply2(op, a.val[s], b.val[s])]]

\* arithmetic of an array with a scalar c: -a, c * a, a / c
ArrNeg(a) ==
    [dims |-> a.dims, shape |-> a.shape, val |-> [s \in Idx(a.shape) |-> Neg(a.val[s])]]
ArrScale(c, a) ==
    [dims |-> a.dims, shape |-> a.shape, val |-> [s \in Idx(a.shape) |-> Mul(c, a.val[s])]]
ArrDiv(a, c) ==
    [dims |-> a.dims, shape |-> a.shape, val |-> [s \in Idx(a.shape) |-> Div(a.val[s], c)]]

(***************************************************************************)
(* Constants of convert_forcing.py and the tables that stand for the       *)
(* transcendental functions.  Angles are whole degrees.                    *)
(***************************************************************************)
R_EARTH == 6371000
PI == <<22, 7>>
OMEGA == <<72921, 1000000000>>     \* 7.2921e-5
GRAV == <<981, 100>>               \* 9.81
RD_RHO == 287                      \* 287.0 in rho = sp / (287.0 * t)

\* np.deg2rad
deg2rad(x) == Mul(x, Div(PI, R(180)))

\* np.cos(np.deg2rad(lat)) and np.sin(np.deg2rad(lat)), lat in CentreLats
CentreLats == {-30, 0, 30}
CosDeg(lat) == CASE lat = 0 -> One
                 [] lat \in {-30, 30} -> <<7, 8>>
SinDeg(lat) == CASE lat = 0 -> Zero
                 [] lat = 30 -> <<1, 2>>
                 [] lat = -30 -> <<-1, 2>>

\* mpcalc.pressure_to_height_std (hPa -> m) on the levels the model uses,
\* to the nearest 100 m (111, 1457, 3012, 5574 and 9164 m)
LevelsHPa == <<1000, 850, 700, 500, 300>>
pressure_to_height_std(hpa) ==
    CASE hpa = R(1000) -> R(100)
      [] hpa = R(850) -> R(1500)
      [] hpa = R(700) -> R(3000)
      [] hpa = R(500) -> R(5600)
      [] hpa = R(300) -> R(9200)

\* the Exner function (p / 100000 Pa) ^ 0.2857 of metpy, p in Pa
exner_function(pa) ==
    CASE pa = R(100000) -> One
      [] pa = R(85000) -> <<20, 21>>
      [] pa = R(70000) -> <<10, 11>>
      [] pa = R(50000) -> <<5, 6>>
      [] pa = R(30000) -> <<5, 7>>

(***************************************************************************)
(* calculate_radiative_heating                                             *)
(***************************************************************************)
\* the flux difference of time step t (0-based) of the four flux series
FluxDiffAtFirstStep(swnet_top, swdn_sfc, lwnet_top, lwdn_sfc, t) ==
    Sub(Add(Sub(swnet_top[1], swdn_sfc[1]), lwnet_top[1]), lwdn_sfc[1])

FluxDiffAt(swnet_top, swdn_sfc, lwnet_top, lwdn_sfc, t) ==
    Sub(Add(Sub(swnet_top[t + 1], swdn_sfc[t + 1]), lwnet_top[t + 1]), lwdn_sfc[t + 1])

\* the flux series and pressure are sequences, temperature a (time, levels)
\* array; the result is the ndarray dT_dt_rad of shape (time, levels)
calculate_radiative_heating(swnet_top, swdn_sfc, lwnet_top, lwdn_sfc, pressure, temperature) ==
    LET shape == <<Len(swnet_top), Len(pressure)>>
    IN  [dims |-> <<"dim_0", "dim_1">>, shape |-> shape,
         val |-> [s \in Idx(shape) |->
                    Div(FluxDiffAt(swnet_top, swdn_sfc, lwnet_top, lwdn_sfc, s[1]),
                        Mul(pressure[s[2] + 1], temperature.val[s]))]]

(***************************************************************************)
(* calculate_grid_spacing, calculate_horizontal_gradients                  *)
(***************************************************************************)
\* lats and lons are sequences of whole degrees; lats[i + 1] is lats[i] of
\* the source
calculate_grid_spacing_outer(lats, lons, center_idx) ==
    LET center_lat == lats[center_idx + 1]
        dy == Div(Mul(R(R_EARTH), deg2rad(R(Abs(lats[Len(lats)] - lats[1])))), R(2))
        dx == Div(Mul(Mul(R(R_EARTH), CosDeg(center_lat)),
                      deg2rad(R(Abs(lons[Len(lons)] - lons[1])))), R(2))
    IN  [dx |-> dx, dy |-> dy]

calculate_grid_spacing(lats, lons, center_idx) ==
    LET center_lat == lats[center_idx + 1]
        dy == Div(Mul(R(R_EARTH), deg2rad(R(Abs(lats[3] - lats[1])))), R(2))
        dx == Div(Mul(Mul(R(R_EARTH), CosDeg(center_lat)),
                      deg2rad(R(Abs(lons[3] - lons[1])))), R(2))
    IN  [dx |-> dx, dy |-> dy]

CentredSum(var, i2, j2, i0, j0, h) ==
    ArrDiv(XrBin("add", IselLL(var, i2, j2), IselLL(var, i0, j0)), Mul(R(2), h))

\* (var.isel(latitude=i2, longitude=j2) - var.isel(latitude=i0, longitude=j0)) / (2 * h)
CentredDiff(var, i2, j2, i0, j0, h) ==
    ArrDiv(XrBin("sub", IselLL(var, i2, j2), IselLL(var, i0, j0)), Mul(R(2), h))

calculate_horizontal_gradients(var, lats, lons, center_idx) ==
    LET sp == calculate_grid_spacing(lats, lons, center_idx)
    IN  [d_dx |-> CentredDiff(var, 1, 2, 1, 0, sp.dx),
         d_dy |-> CentredDiff(var, 2, 1, 0, 1, sp.dy)]

(***************************************************************************)
(* calculate_geostrophic_wind                                              *)
(***************************************************************************)
Coriolis(lat) == Mul(Mul(R(2), OMEGA), SinDeg(lat[2]))

calculate_geostrophic_wind_swapped(z, lat, lon) ==
    LET f == Coriolis(lat)
        g == calculate_horizontal_gradients(z, lat, lon, 1)
    IN  [u_g |-> ArrScale(Mul(Neg(Div(One, f)), GRAV), g.d_dx),
         v_g |-> ArrScale(Mul(Div(One, f), GRAV), g.d_dy)]

calculate_geostrophic_wind(z, lat, lon) ==
    LET f == Coriolis(lat)
        g == calculate_horizontal_gradients(z, lat, lon, 1)
    IN  [u_g |-> ArrScale(Mul(Neg(Div(One, f)), GRAV), g.d_dy),
         v_g |-> ArrScale(Mul(Div(One, f), GRAV), g.d_dx)]

(***************************************************************************)
(* theta_from_t, calculate_advection                                       *)
(***************************************************************************)
\* mpcalc.potential_temperature(pressure, temperature) = temperature /
\* exner_function(pressure); metpy broadcasts (pressure, temperature) in that
\* order, so the result carries the dimensions of pressure first
theta_from_t(temperature, pressure) ==
    LET exner == [dims |-> pressure.dims, shape |-> pressure.shape,
                  val |-> [s \in Idx(pressure.shape) |-> exner_function(pressure.val[s])]]
    IN  TransposeLike(XrBin("div", temperature, exner), XrBin("add", pressure, temperature))

\* np.gradient(f, x) for sequences f and x of equal length >= 2: one-sided
\* differences at the two ends, the second-order formula for uneven spacing
\* inside
np_gradient_sign_slip(f, x) ==
    LET n == Len(f)
        inner(i) ==
            LET dx1 == Sub(x[i], x[i - 1])
                dx2 == Sub(x[i + 1], x[i])
                a == Div(dx2, Mul(dx1, Add(dx1, dx2)))
                b == Div(Sub(dx2, dx1), Mul(dx1, dx2))
                c == Div(dx1, Mul(dx2, Add(dx1, dx2)))
            IN  Add(Add(Mul(a, f[i - 1]), Mul(b, f[i])), Mul(c, f[i + 1]))
    IN  [i \in 1 .. n |->
           IF i = 1 THEN Div(Sub(f[2], f[1]), Sub(x[2], x[1]))
           ELSE IF i = n THEN Div(Sub(f[n], f[n - 1]), Sub(x[n], x[n - 1]))
           ELSE inner(i)]

np_gradient(f, x) ==
    LET n == Len(f)
        inner(i) ==
            LET dx1 == Sub(x[i], x[i - 1])
                dx2 == Sub(x[i + 1], x[i])
                a == Neg(Div(dx2, Mul(dx1, Add(dx1, dx2))))
                b == Div(Sub(dx2, dx1), Mul(dx1, dx2))
                c == Div(dx1, Mul(dx2, Add(dx1, dx2)))
            IN  Add(Add(Mul(a, f[i - 1]), Mul(b, f[i])), Mul(c, f[i + 1]))
    IN  [i \in 1 .. n |->
           IF i = 1 THEN Div(Sub(f[2], f[1]), Sub(x[2], x[1]))
           ELSE IF i = n THEN Div(Sub(f[n], f[n - 1]), Sub(x[n], x[n - 1]))
           ELSE inner(i)]

\* heights[t, :] = mpcalc.pressure_to_height_std(pressure * units.Pa / 100)
HeightsOf(pressure) ==
    [l \in 1 .. Len(pressure) |-> pressure_to_height_std(Div(pressure[l], R(100)))]

\* dvardz[t, :] = np.gradient(var[t, :, center_idx, center_idx], heights[t, :])
VerticalGradient(var, pressure, center_idx) ==
    LET prof(t) == [l \in 1 .. var.shape[2] |-> var.val[<<t, l - 1, center_idx, center_idx>>]]
        grad == [t \in 0 .. var.shape[1] - 1 |-> np_gradient(prof(t), HeightsOf(pressure))]
    IN  [dims |-> <<"time", "levels">>, shape |-> <<var.shape[1], var.shape[2]>>,
         val |-> [s \in Idx(<<var.shape[1], var.shape[2]>>) |-> grad[s[1]][s[2] + 1]]]

\* var is a DataArray (time, levels, latitude, longitude); u, v, w and
\* temperature are ndarrays (time, levels); pressure is a sequence in Pa
calculate_advection(var, u, v, w, lats, lons, pressure, temperature, center_idx) ==
    LET g == calculate_horizontal_gradients(var, lats, lons, center_idx)
        dvardz == VerticalGradient(var, pressure, center_idx)
        h_advec == ArrNeg(XrBin("add", NpBin("mul", u, g.d_dx, g.d_dx),
                                       NpBin("mul", v, g.d_dy, g.d_dy)))
        v_advec == NpBin("mul", ArrNeg(w), dvardz, dvardz)
    IN  [h_advec |-> h_advec, v_advec |-> v_advec]

(***************************************************************************)
(* Synthetic inputs of the numerical routines.                             *)
(***************************************************************************)
Vals == 0 .. MaxVal

\* a field over (time, levels, latitude, longitude): on the 3 x 3 patch the
\* four neighbours of the centre hold w (west index), e (east index),
\* a (latitude index 0) and b (latitude index 2), every other point holds k;
\* tv and lv are added per time step and per level
FieldOfN(w, e, a, b, k, tv, lv, nl) ==
    [dims |-> <<"time", "levels", "latitude", "longitude">>,
     shape |-> <<NT, nl, 3, 3>>,
     val |-> [s \in Idx(<<NT, nl, 3, 3>>) |->
                R(s[1] * tv + s[2] * lv +
                  (CASE s[3] = 1 /\ s[4] = 0 -> w
                     [] s[3] = 1 /\ s[4] = 2 -> e
                     [] s[3] = 0 /\ s[4] = 1 -> a
                     [] s[3] = 2 /\ s[4] = 1 -> b
                     [] OTHER -> k))]]

FieldOf(w, e, a, b, k, tv, lv) == FieldOfN(w, e, a, b, k, tv, lv, NL)

Fields ==
    {FieldOf(w, e, a, b, k, tv, lv) :
        w \in Vals, e \in Vals, a \in Vals, b \in Vals, k \in Vals,
        tv \in {0, 1}, lv \in {0, 1}}

\* three grid points around c: ascending, descending, degenerate, uneven
Triples(c) == {<<c - 1, c, c + 1>>, <<c + 1, c, c - 1>>, <<c, c, c>>, <<c - 1, c, c + 2>>}

LatArrays == UNION {Triples(c) : c \in CentreLats}
LonArrays == Triples(10)

NoArgs == [fn |-> "none"]
NoRet == [fn |-> "none"]
NoFs == <<>>
NoLast == [op |-> "none"]

(***************************************************************************)
(* SpecGrid: calculate_horizontal_gradients and calculate_geostrophic_wind *)
(* applied to a field on a 3 x 3 patch.                                    *)
(***************************************************************************)
InitGrid ==
    /\ pc = "start"
    /\ \E var \in Fields, lats \in LatArrays, lons \in LonArrays :
          args = [var |-> var, lats |-> lats, lons |-> lons]
    /\ ret = NoRet
    /\ fs = NoFs
    /\ last = NoLast

CallHorizontalGradients ==
    /\ pc = "start"
    /\ pc' = "gradients"
    /\ ret' = calculate_horizontal_gradients(args.var, args.lats, args.lons, 1)
    /\ UNCHANGED <<args, fs, last>>

CallGeostrophicWind ==
    /\ pc = "start"
    /\ pc' = "geostrophic"
    /\ ret' = calculate_geostrophic_wind(args.var, args.lats, args.lons)
    /\ UNCHANGED <<args, fs, last>>

NextGrid == CallHorizontalGradients \/ CallGeostrophicWind

SpecGrid == InitGrid /\ [][NextGrid]_vars

(***************************************************************************)
(* SpecAdv: calculate_advection applied to a field, centre-point winds and *)
(* a pressure profile.                                                     *)
(***************************************************************************)
\* an ndarray over (time, levels): c + d * (t + l)
WindOf(c, d, nl) ==
    [dims |-> <<"dim_0", "dim_1">>, shape |-> <<NT, nl>>,
     val |-> [s \in Idx(<<NT, nl>>) |-> R(c + d * (s[1] + s[2]))]]

Winds(nl) == {WindOf(1, 0, nl), WindOf(-1, 1, nl)}

\* pressure profiles in Pa over the first nl levels of the table: descending,
\* ascending, with a repeated level, and out of order
LevelPa(l) == R(LevelsHPa[l] * 100)
Profiles(nl) ==
    { [l \in 1 .. nl |-> LevelPa(l)],
      [l \in 1 .. nl |-> LevelPa(nl + 1 - l)],
      [l \in 1 .. nl |-> LevelPa(IF l = 1 THEN 2 ELSE l)],
      [l \in 1 .. nl |-> LevelPa(IF l = 1 THEN nl ELSE IF l = nl THEN 1 ELSE nl + 1 - l)],
      [l \in 1 .. nl |-> LevelPa(IF l = nl THEN 1 ELSE l + 1)] }

StrictlyMonotonic(p) ==
    \/ \A l \in 1 .. Len(p) - 1 : p[l][1] < p[l + 1][1]
    \/ \A l \in 1 .. Len(p) - 1 : p[l][1] > p[l + 1][1]

InitAdv ==
    /\ pc = "start"
    /\ \E nl \in 2 .. NL :
       \E e \in Vals, b \in Vals, k \in Vals, tv \in {0, 1}, lv \in {0, 1} :
       \E u \in Winds(nl), v \in Winds(nl), w \in Winds(nl) :
       \E pressure \in Profiles(nl) :
       \E lats \in {<<29, 30, 31>>, <<31, 30, 29>>} :
          args = [var |-> FieldOfN(k, e, k, b, k, tv, lv, nl),
                  u |-> u, v |-> v, w |-> w,
                  lats |-> lats, lons |-> <<9, 10, 11>>,
                  pressure |-> pressure,
                  temperature |-> WindOf(250, 1, nl)]
    /\ ret = NoRet
    /\ fs = NoFs
    /\ last = NoLast

CallAdvection ==
    /\ pc = "start"
    /\ pc' = "advection"
    /\ ret' = calculate_advection(args.var, args.u, args.v, args.w, args.lats,
                                  args.lons, args.pressure, args.temperature, 1)
    /\ UNCHANGED <<args, fs, last>>

NextAdv == CallAdvection

SpecAdv == InitAdv /\ [][NextAdv]_vars

(***************************************************************************)
(* SpecRad: calculate_radiative_heating applied to four flux series, a     *)
(* pressure profile and a temperature array; then one flux value of one    *)
(* time step is changed and the routine is applied again.                  *)
(***************************************************************************)
\* a flux series over time: c + d * t
SeriesOf(c, d) == [t \in 1 .. NT |-> R(c + d * (t - 1))]
FluxSeries == {SeriesOf(c, d) : c \in Vals, d \in {0, 1}}
FluxNames == {"swnet_top", "swdn_sfc", "lwnet_top", "lwdn_sfc"}

InitRad ==
    /\ pc = "start"
    /\ \E a \in FluxSeries, b \in FluxSeries, c \in FluxSeries, d \in FluxSeries :
       \E pressure \in {[l \in 1 .. NL |-> LevelPa(l)], [l \in 1 .. NL |-> LevelPa(NL + 1 - l)]} :
       \E t0 \in {250, 300}, td \in {0, 1} :
          args = [swnet_top |-> a, swdn_sfc |-> b, lwnet_top |-> c, lwdn_sfc |-> d,
                  pressure |-> pressure, temperature |-> WindOf(t0, td, NL)]
    /\ ret = NoRet
    /\ fs = NoFs
    /\ last = NoLast

RadiativeHeatingOf(a) ==
    calculate_radiative_heating(a.swnet_top, a.swdn_sfc, a.lwnet_top, a.lwdn_sfc,
                                a.pressure, a.temperature)

CallRadiativeHeating ==
    /\ pc = "start"
    /\ pc' = "radiative"
    /\ ret' = RadiativeHeatingOf(args)
    /\ UNCHANGED <<args, fs, last>>

\* the caller changes one flux of one time step and calls again
CallRadiativeHeatingAgain ==
    /\ pc = "radiative"
    /\ pc' = "radiative_again"
    /\ \E name \in FluxNames, t \in 1 .. NT :
          args' = [args EXCEPT ![name][t] = Add(@, One)]
    /\ ret' = RadiativeHeatingOf(args')
    /\ UNCHANGED <<fs, last>>

NextRad == CallRadiativeHeating \/ CallRadiativeHeatingAgain

SpecRad == InitRad /\ [][NextRad]_vars

(***************************************************************************)
(* Datasets.  A dataset is a record of coordinates (name -> sequence) and  *)
(* variables (name -> array with attrs).  Coordinate labels are not used   *)
(* to align arrays: every array of one dataset is on the same grid.        *)
(***************************************************************************)
WithAttrs(a, attrs) == [dims |-> a.dims, shape |-> a.shape, val |-> a.val, attrs |-> attrs]

NoAttrs == <<>>

\* DataArray.isel(latitude=1, longitude=1) of a dataset variable keeps its attrs
IselCentre(v) == WithAttrs(IselLL(v, 1, 1), v.attrs)

\* .values of a one-dimensional array, as a sequence
SeqOf(a) == [t \in 1 .. a.shape[1] |-> a.val[<<t - 1>>]]

\* out[name] = value
Assign(vs, name, value) ==
    [n \in DOMAIN vs \cup {name} |-> IF n = name THEN value ELSE vs[n]]

RECURSIVE AssignAll(_, _)
AssignAll(vs, pairs) ==
    IF pairs = <<>> THEN vs
    ELSE AssignAll(Assign(vs, Head(pairs)[1], Head(pairs)[2]), Tail(pairs))

\* the dimensions of order that the array a has, in the order of order
RECURSIVE KeepDims(_, _)
KeepDims(a, order) ==
    IF order = <<>> THEN <<>>
    ELSE (IF HasDim(a, Head(order)) THEN <<Head(order)>> ELSE <<>>) \o KeepDims(a, Tail(order))

DatasetTransposeNoop(out, order) == out

\* Dataset.transpose(*order): every variable is transposed to the dimensions
\* of order that it has
DatasetTranspose(out, order) ==
    [coords |-> out.coords,
     vars |-> [n \in DOMAIN out.vars |->
                 WithAttrs(TransposeTo(out.vars[n], KeepDims(out.vars[n], order)),
                           out.vars[n].attrs)]]

(***************************************************************************)
(* era5_to_scm_forcing                                                     *)
(***************************************************************************)
var_attrs ==
    [p_surf |-> [units |-> "Pa", long_name |-> "surface pressure"],
     T_surf |-> [units |-> "K", long_name |-> "surface absolute temperature"],
     w_ls |-> [units |-> "m s^-1", long_name |-> "large scale vertical velocity"],
     omega |-> [units |-> "Pa s^-1", long_name |-> "large scale pressure vertical velocity"],
     u_g |-> [units |-> "m s^-1", long_name |-> "large scale geostrophic E-W wind"],
     v_g |-> [units |-> "m s^-1", long_name |-> "large scale geostrophic N-S wind"],
     u_nudge |-> [units |-> "m s^-1", long_name |-> "E-W wind to nudge toward"],
     v_nudge |-> [units |-> "m s^-1", long_name |-> "N-S wind to nudge toward"],
     T_nudge |-> [units |-> "K", long_name |-> "absolute temperature to nudge toward"],
     thil_nudge |-> [units |-> "K", long_name |-> "potential temperature to nudge toward"],
     qt_nudge |-> [units |-> "kg kg^-1", long_name |-> "q_t to nudge toward"],
     dT_dt_rad |-> [units |-> "K s^-1", long_name |-> "prescribed radiative heating rate"],
     h_advec_thetail |-> [units |-> "K s^-1",
                          long_name |-> "prescribed theta_il tendency due to horizontal advection"],
     v_advec_thetail |-> [units |-> "K s^-1",
                          long_name |-> "prescribed theta_il tendency due to vertical advection"],
     h_advec_qt |-> [units |-> "kg kg^-1 s^-1",
                     long_name |-> "prescribed q_t tendency due to horizontal advection"],
     v_advec_qt |-> [units |-> "kg kg^-1 s^-1",
                     long_name |-> "prescribed q_t tendency due to vertical advection"]]

SetAttrsKeepingOld(v, new) ==
    WithAttrs(v, [k \in DOMAIN v.attrs \cup DOMAIN new |->
                    IF k \in DOMAIN new THEN new[k] ELSE v.attrs[k]])

\* out[var].attrs = var_attrs[var]
SetAttrs(v, new) == WithAttrs(v, new)

\* for var in out.variables: if var in var_attrs: out[var].attrs = var_attrs[var]
AddVariableAttributes(vs) ==
    [n \in DOMAIN vs |-> IF n \in DOMAIN var_attrs THEN SetAttrs(vs[n], var_attrs[n]) ELSE vs[n]]

\* pressure_levels = ds.levels * 100
PressureLevels(ds) ==
    [dims |-> <<"levels">>, shape |-> <<Len(ds.coords.levels)>>,
     val |-> [s \in Idx(<<Len(ds.coords.levels)>>) |-> R(ds.coords.levels[s[1] + 1] * 100)]]

\* h_advec_theta, v_advec_theta = calculate_advection(theta_from_t(ds.t, ...), ...)
AdvectionOfTheta(ds) ==
    calculate_advection(
        TransposeTo(theta_from_t(ds.vars.t, PressureLevels(ds)),
                    <<"time", "levels", "latitude", "longitude">>),
        LastTwo(ds.vars.u, 1, 1), LastTwo(ds.vars.v, 1, 1), LastTwo(ds.vars.w, 1, 1),
        ds.coords.latitude, ds.coords.longitude,
        SeqOf(PressureLevels(ds)), LastTwo(ds.vars.t, 1, 1), 1)

\* h_advec_qt, v_advec_qt = calculate_advection(ds.q, ...)
AdvectionOfQ(ds) ==
    calculate_advection(
        ds.vars.q,
        IselLL(ds.vars.u, 1, 1), IselLL(ds.vars.v, 1, 1), LastTwo(ds.vars.w, 1, 1),
        ds.coords.latitude, ds.coords.longitude,
        SeqOf(PressureLevels(ds)), IselLL(ds.vars.t, 1, 1), 1)

QtSlotsFromQ(adv_theta, adv_qt) == adv_qt

\* out['h_advec_qt'] = h_advec_theta; out['v_advec_qt'] = v_advec_theta
QtSlots(adv_theta, adv_qt) == adv_theta

\* rho = ds.sp / (287.0 * ds.t); w = -ds.w / (rho * 9.81)
LargeScaleW(ds) ==
    LET rho == XrBin("div", ds.vars.sp, ArrScale(R(RD_RHO), ds.vars.t))
    IN  XrBin("div", ArrNeg(ds.vars.w), ArrScale(GRAV, rho))

\* dT_dt_rad = calculate_radiative_heating(...) on the centre-point series
RadiativeHeatingOfDataset(ds) ==
    calculate_radiative_heating(
        SeqOf(IselLL(ds.vars.tsr, 1, 1)), SeqOf(IselLL(ds.vars.ssr, 1, 1)),
        SeqOf(IselLL(ds.vars.ttr, 1, 1)), SeqOf(IselLL(ds.vars.str, 1, 1)),
        SeqOf(PressureLevels(ds)), IselLL(ds.vars.t, 1, 1))

\* (('time', 'levels'), values): an ndarray with the dimensions it is given
Named(a) == [dims |-> <<"time", "levels">>, shape |-> a.shape, val |-> a.val]

EmptyVars == <<>>

\* the assignments out[name] = ... of era5_to_scm_forcing, from the input
\* dataset and the values computed before them
OutputVariables(ds, geo, adv_theta, adv_qt, w, thil, dT_dt_rad) ==
    AssignAll(EmptyVars, <<
        <<"w_ls", WithAttrs(IselLL(w, 1, 1), NoAttrs)>>,
        <<"omega", IselCentre(ds.vars.w)>>,
        <<"u_nudge", IselCentre(ds.vars.u)>>,
        <<"v_nudge", IselCentre(ds.vars.v)>>,
        <<"T_nudge", IselCentre(ds.vars.t)>>,
        <<"thil_nudge", WithAttrs(Named(thil), NoAttrs)>>,
        <<"qt_nudge", IselCentre(ds.vars.q)>>,
        <<"u_g", WithAttrs(geo.u_g, NoAttrs)>>,
        <<"v_g", WithAttrs(geo.v_g, NoAttrs)>>,
        <<"h_advec_thetail", WithAttrs(adv_theta.h_advec, NoAttrs)>>,
        <<"v_advec_thetail", WithAttrs(adv_theta.v_advec, NoAttrs)>>,
        <<"h_advec_qt", WithAttrs(QtSlots(adv_theta, adv_qt).h_advec, NoAttrs)>>,
        <<"v_advec_qt", WithAttrs(QtSlots(adv_theta, adv_qt).v_advec, NoAttrs)>>,
        <<"p_surf", IselCentre(ds.vars.sp)>>,
        <<"T_surf", IselCentre(ds.vars.t2m)>>,
        <<"dT_dt_rad", WithAttrs(Named(dT_dt_rad), NoAttrs)>> >>)

era5_to_scm_forcing(ds) ==
    DatasetTranspose(
        [coords |-> [levels |-> SeqOf(PressureLevels(ds))],
         vars |-> AddVariableAttributes(
                    OutputVariables(
                        ds,
                        calculate_geostrophic_wind(ds.vars.z, ds.coords.latitude,
                                                   ds.coords.longitude),
                        AdvectionOfTheta(ds),
                        AdvectionOfQ(ds),
                        LargeScaleW(ds),
                        NumpyT(theta_from_t(IselLL(ds.vars.t, 1, 1), PressureLevels(ds))),
                        RadiativeHeatingOfDataset(ds)))],
        <<"levels", "time">>)

(***************************************************************************)
(* The ERA5 inputs of convert_forcings: a surface file and a pressure-level *)
(* file per scenario, as downloaded (dimensions valid_time, pressure_level, *)
(* latitude descending, longitude ascending).                              *)
(***************************************************************************)
Scenarios ==
    { [name |-> "a", sfc |-> "era5_a_sfc.nc", pl |-> "era5_a_pl.nc",
       te |-> 1, tb |-> 0, qe |-> 0, qb |-> 1, ze |-> 1, zb |-> 0, fl |-> 1],
      [name |-> "b", sfc |-> "era5_b_sfc.nc", pl |-> "era5_b_pl.nc",
       te |-> 0, tb |-> 1, qe |-> 1, qb |-> 0, ze |-> 0, zb |-> 1, fl |-> 3],
      [name |-> "c", sfc |-> "era5_c_sfc.nc", pl |-> "era5_c_pl.nc",
       te |-> 0, tb |-> 0, qe |-> 0, qb |-> 0, ze |-> 1, zb |-> 1, fl |-> 0] }

Era5Attrs(name) == [units |-> "era5 units", long_name |-> name, standard_name |-> name]

RenameDims(a, old, new) ==
    [dims |-> [k \in 1 .. Len(a.dims) |-> IF a.dims[k] = old THEN new ELSE a.dims[k]],
     shape |-> a.shape, val |-> a.val, attrs |-> a.attrs]

\* a pressure-level variable of a downloaded file
PlVar(name, w, e, a, b, k, tv, lv) ==
    RenameDims(RenameDims(WithAttrs(FieldOf(w, e, a, b, k, tv, lv), Era5Attrs(name)),
                          "time", "valid_time"), "levels", "pressure_level")

\* a surface variable of a downloaded file: c + d * t at every grid point
SfcVar(name, c, d) ==
    [dims |-> <<"valid_time", "latitude", "longitude">>, shape |-> <<NT, 3, 3>>,
     val |-> [s \in Idx(<<NT, 3, 3>>) |-> R(c + d * s[1])],
     attrs |-> Era5Attrs(name)]

GridCoords ==
    [valid_time |-> [t \in 1 .. NT |-> t - 1],
     latitude |-> <<31, 30, 29>>,
     longitude |-> <<9, 10, 11>>]

RawPl(sc) ==
    [coords |-> [valid_time |-> GridCoords.valid_time,
                 latitude |-> GridCoords.latitude,
                 longitude |-> GridCoords.longitude,
                 pressure_level |-> SubSeq(LevelsHPa, 1, NL)],
     vars |-> [z |-> PlVar("z", 0, sc.ze, 0, sc.zb, 0, 0, 1),
               t |-> PlVar("t", 250, 250 + sc.te, 250, 250 + sc.tb, 250, 1, 0),
               u |-> PlVar("u", 1, 1, 1, 1, 1, 1, 0),
               v |-> PlVar("v", 2, 2, 2, 2, 2, 0, 0),
               w |-> PlVar("w", 1, 1, 1, 1, 1, 0, 1),
               q |-> PlVar("q", 0, sc.qe, 0, sc.qb, 0, 0, 0)]]

RawSfc(sc) ==
    [coords |-> GridCoords,
     vars |-> [sp |-> SfcVar("sp", 100000, 0),
               t2m |-> SfcVar("t2m", 280, 1),
               tsr |-> SfcVar("tsr", 3, sc.fl),
               ssr |-> SfcVar("ssr", 1, 0),
               ttr |-> SfcVar("ttr", 2, 0),
               str |-> SfcVar("str", 1, 1)]]

\* xr.open_dataset(path) on the downloaded files
open_dataset(path) ==
    LET sc == CHOOSE x \in Scenarios : path \in {x.sfc, x.pl}
    IN  IF path = sc.sfc THEN RawSfc(sc) ELSE RawPl(sc)

(***************************************************************************)
(* util._maybe_open and cli.convert_forcings                               *)
(***************************************************************************)
None == [type |-> "NoneType"]
Str(x) == [type |-> "str", value |-> x]
Dataset(x) == [type |-> "Dataset", value |-> x]
ValueError == [type |-> "ValueError"]

_maybe_open_strings_only(f) ==
    IF f.type = "str" THEN Dataset(open_dataset(f.value))
    ELSE ValueError

_maybe_open(f) ==
    IF f.type = "str" THEN Dataset(open_dataset(f.value))
    ELSE IF f.type = "Dataset" THEN f
    ELSE ValueError

\* xr.merge([ds1, ds2])
merge(ds1, ds2) == [coords |-> ds1.coords @@ ds2.coords, vars |-> ds1.vars @@ ds2.vars]

\* ds.rename({'valid_time': 'time', 'pressure_level': 'levels'})
rename(ds) ==
    LET nm(d) == IF d = "valid_time" THEN "time"
                 ELSE IF d = "pressure_level" THEN "levels" ELSE d
        old(d) == IF d = "time" THEN "valid_time"
                  ELSE IF d = "levels" THEN "pressure_level" ELSE d
    IN  [coords |-> [c \in {nm(k) : k \in DOMAIN ds.coords} |-> ds.coords[old(c)]],
         vars |-> [n \in DOMAIN ds.vars |->
                     [dims |-> [k \in 1 .. Len(ds.vars[n].dims) |-> nm(ds.vars[n].dims[k])],
                      shape |-> ds.vars[n].shape,
                      val |-> ds.vars[n].val,
                      attrs |-> ds.vars[n].attrs]]]

\* the file system: every output path holds no file, or a container that
\* maps its groups to their content
OutPaths == {"scm_input.nc"}
Absent == [exists |-> FALSE, groups |-> <<>>]
Container(groups) == [exists |-> TRUE, groups |-> groups]
EmptyContainer == Container(<<>>)

\* os.path.exists(output_file)
exists(files, path) == files[path].exists

ModeAlwaysWrite(files, path) == "w"

\* the mode convert_forcings passes to to_netcdf
ModeFor(files, path) == IF exists(files, path) THEN "a" ELSE "w"

\* out.to_netcdf(path, mode, group=group): "w" replaces the file by a
\* container holding the group alone, "a" writes the group into the
\* container that is there
to_netcdf(files, path, mode, group, data) ==
    [files EXCEPT ![path] =
        IF mode = "w" THEN Container([g \in {group} |-> data])
        ELSE Container([g \in DOMAIN @.groups \cup {group} |->
                          IF g = group THEN data ELSE @.groups[g]])]

\* what a to_netcdf that raises may leave behind: nothing changed, or with
\* mode "w" a truncated file
AfterFailedWrite(files, path, mode) ==
    {files} \cup (IF mode = "w" THEN {[files EXCEPT ![path] = EmptyContainer]} ELSE {})

OutcomeSwallowingErrors(write) == "returned"

\* convert_forcings has no try/except: an exception of to_netcdf leaves it
Outcome(write) == IF write = "failed" THEN "raised" ELSE "returned"

NoValue == [type |-> "nothing"]

\* the two ways a call ends
Raised(error) == [outcome |-> "raised", error |-> error]
Returned(value) == [outcome |-> "returned", value |-> value]

\* ds.name and ds['name'] find name among the variables and coordinates of ds
Has(ds, name) == name \in DOMAIN ds.vars \cup DOMAIN ds.coords

AllPresent(ds, names) == \A k \in 1 .. Len(names) : Has(ds, names[k])

\* seq[i] and isel(dim=i), i counted from 0, are inside the array
InBounds(seq, i) == i < Len(seq)

\* the names era5_to_scm_forcing reads from ds, in the order of the first
\* read: up to the call of calculate_geostrophic_wind, and after it
ReadBeforeGrid == <<"levels", "z", "latitude", "longitude">>
ReadAfterGrid == <<"t", "u", "v", "w", "q", "sp", "t2m", "tsr", "ssr", "ttr", "str">>

\* the grid indices the code reads: lat[1], lats[2] - lats[0], lons[2] - lons[0],
\* isel(latitude=1, longitude=2), ...
GridIndices == {0, 1, 2}

GridIndexError(ds) ==
    \E i \in GridIndices :
        ~InBounds(ds.coords.latitude, i) \/ ~InBounds(ds.coords.longitude, i)

EmptyDataset == [coords |-> <<>>, vars |-> <<>>]

Try_era5_to_scm_forcing_masking(ds) ==
    IF /\ AllPresent(ds, ReadBeforeGrid \o ReadAfterGrid)
       /\ ~GridIndexError(ds)
    THEN Returned(era5_to_scm_forcing(ds))
    ELSE Returned(EmptyDataset)

\* a call of era5_to_scm_forcing with the exceptions it can end in: a read
\* of a name ds does not have raises AttributeError, an index outside the
\* grid raises IndexError, whichever the code reaches first
Try_era5_to_scm_forcing(ds) ==
    IF ~AllPresent(ds, ReadBeforeGrid) THEN Raised("AttributeError")
    ELSE IF GridIndexError(ds) THEN Raised("IndexError")
    ELSE IF ~AllPresent(ds, ReadAfterGrid) THEN Raised("AttributeError")
    ELSE Returned(era5_to_scm_forcing(ds))

InitCli ==
    /\ pc = "idle"
    /\ args = NoArgs
    /\ ret = NoRet
    /\ fs = [p \in OutPaths |-> Absent]
    /\ last = NoLast

\* convert_forcings, lines 66-70: open, merge, rename, assemble; a ValueError
\* of _maybe_open and an exception of era5_to_scm_forcing end the call
ComputeForcing(era5_surface_file, era5_pressure_levels_file) ==
    LET ds1 == _maybe_open(era5_surface_file)
        ds2 == _maybe_open(era5_pressure_levels_file)
    IN  IF ds1.type = "ValueError" \/ ds2.type = "ValueError"
        THEN Raised("ValueError")
        ELSE Try_era5_to_scm_forcing(rename(merge(ds1.value, ds2.value)))

\* an exception of lines 66-70 leaves convert_forcings: nothing is written
\* and nothing is returned
Propagate(r, output_file, call) ==
    /\ fs' = fs
    /\ last' = [op |-> "convert_forcings", scenario |-> call.scenario,
                era5_surface_file |-> call.era5_surface_file.type,
                era5_pressure_levels_file |-> call.era5_pressure_levels_file.type,
                output_file |-> output_file,
                mode |-> "none", write |-> "none", computed |-> NoValue,
                outcome |-> "raised", error |-> r.error, returned |-> NoValue]

\* convert_forcings, lines 72-78: write out to output_file unless it is None,
\* then return out; the three cases are no write, a write that succeeds and
\* a write that raises
PersistAndReturn(out, output_file, call) ==
    LET mode == IF output_file = None THEN "none" ELSE ModeFor(fs, output_file.value)
        done(write) ==
            [op |-> "convert_forcings", scenario |-> call.scenario,
             era5_surface_file |-> call.era5_surface_file.type,
             era5_pressure_levels_file |-> call.era5_pressure_levels_file.type,
             output_file |-> output_file,
             mode |-> mode, write |-> write, computed |-> out,
             outcome |-> Outcome(write),
             returned |-> IF Outcome(write) = "returned" THEN out ELSE NoValue]
    IN  \/ /\ output_file = None
           /\ fs' = fs
           /\ last' = done("none")
        \/ /\ output_file # None
           /\ fs' = to_netcdf(fs, output_file.value, mode, "forcing", out)
           /\ last' = done("ok")
        \/ /\ output_file # None
           /\ fs' \in AfterFailedWrite(fs, output_file.value, mode)
           /\ last' = done("failed")

\* one call convert_forcings(era5_surface_file, era5_pressure_levels_file,
\* output_file), the inputs given as paths or as datasets
convert_forcings(era5_surface_file, era5_pressure_levels_file, sc) ==
    \E r \in {ComputeForcing(era5_surface_file, era5_pressure_levels_file)} :
    \E output_file \in {None} \cup {Str(p) : p \in OutPaths} :
        LET call == [scenario |-> sc, era5_surface_file |-> era5_surface_file,
                     era5_pressure_levels_file |-> era5_pressure_levels_file]
        IN  IF r.outcome = "raised"
            THEN Propagate(r, output_file, call)
            ELSE PersistAndReturn(r.value, output_file, call)

\* the two forms of the input arguments: the paths of the files, or the datasets
InputForms == {"str", "Dataset"}
Input(form, path, ds) == IF form = "str" THEN Str(path) ELSE Dataset(ds)

ConvertForcings ==
    /\ \E sc \in Scenarios : \E form \in InputForms :
          convert_forcings(Input(form, sc.sfc, RawSfc(sc)), Input(form, sc.pl, RawPl(sc)),
                           sc.name)
    /\ UNCHANGED <<pc, args, ret>>

\* convert_era5_from_template(era5_processed_forcings, template, output_file)
\* on the dataset the latest convert_forcings returned: the file is written
\* anew with the template's root, then the groups forcing, initial, scalars
ConvertEra5FromTemplate ==
    /\ last.op = "convert_forcings"
    /\ last.outcome = "returned"
    /\ \E p \in OutPaths :
          /\ fs' = [fs EXCEPT ![p] =
                      Container([g \in {"/", "forcing", "initial", "scalars"} |->
                                   IF g = "forcing" THEN [interpolated |-> last.scenario]
                                   ELSE [template |-> g]])]
          /\ last' = [op |-> "convert_era5_from_template", output_file |-> Str(p)]
    /\ UNCHANGED <<pc, args, ret>>

Next == ConvertForcings \/ ConvertEra5FromTemplate

Spec == InitCli /\ [][Next]_vars

(***************************************************************************)
(* SpecCall: one call of era5_to_scm_forcing, or of convert_forcings, on   *)
(* an input that may lack a variable or a coordinate, may have a grid that *)
(* is not 3 x 3, or may be no dataset at all.                              *)
(***************************************************************************)
MaxGrid == 4

RawNames ==
    {"z", "t", "u", "v", "w", "q", "sp", "t2m", "tsr", "ssr", "ttr", "str",
     "latitude", "longitude"}

NoDefect == [kind |-> "none", name |-> "", nlat |-> 3, nlon |-> 3]
Dropped(names) == {[kind |-> "drop", name |-> n, nlat |-> 3, nlon |-> 3] : n \in names}
Regridded ==
    {[kind |-> "grid", name |-> "", nlat |-> i, nlon |-> j] : i \in 1 .. MaxGrid, j \in 1 .. MaxGrid}
        \ {[kind |-> "grid", name |-> "", nlat |-> 3, nlon |-> 3]}

\* ds without the variable or coordinate name
Drop(ds, name) ==
    [coords |-> [c \in DOMAIN ds.coords \ {name} |-> ds.coords[c]],
     vars |-> [n \in DOMAIN ds.vars \ {name} |-> ds.vars[n]]]

\* ds on a grid of nlat x nlon points: the points both grids have keep their
\* values, every further point holds 9
Regrid(ds, nlat, nlon) ==
    [coords |-> [c \in DOMAIN ds.coords |->
                   IF c = "latitude" THEN [k \in 1 .. nlat |-> GridCoords.latitude[1] + 1 - k]
                   ELSE IF c = "longitude" THEN [k \in 1 .. nlon |-> GridCoords.longitude[1] + k - 1]
                   ELSE ds.coords[c]],
     vars |-> [n \in DOMAIN ds.vars |->
                 LET v == ds.vars[n]
                     m == Len(v.shape)
                     sh == SubSeq(v.shape, 1, m - 2) \o <<nlat, nlon>>
                 IN  [dims |-> v.dims, shape |-> sh,
                      val |-> [x \in Idx(sh) |->
                                 IF x[m - 1] < 3 /\ x[m] < 3 THEN v.val[x] ELSE R(9)],
                      attrs |-> v.attrs]]]

WithDefect(defect, ds) ==
    CASE defect.kind = "drop" -> Drop(ds, defect.name)
      [] defect.kind = "grid" -> Regrid(ds, defect.nlat, defect.nlon)
      [] OTHER -> ds

\* the arguments convert_forcings may be given: a path, a dataset, None, or
\* a value of another type
ArgKinds == {"str", "Dataset", "NoneType", "int"}
Argument(kind, path, ds) ==
    CASE kind = "str" -> Str(path)
      [] kind = "Dataset" -> Dataset(ds)
      [] kind = "NoneType" -> None
      [] OTHER -> [type |-> "int", value |-> 0]

\* an output file that is there before the call: a copy of a template
TemplateCopy == Container([g \in {"/", "forcing", "initial", "scalars"} |-> [template |-> g]])

InitCall ==
    /\ pc = "idle"
    /\ args = NoArgs
    /\ ret = NoRet
    /\ fs \in {[p \in OutPaths |-> Absent], [p \in OutPaths |-> TemplateCopy]}
    /\ last = NoLast

\* era5_to_scm_forcing(ds) called directly
CallEra5ToScmForcing ==
    /\ pc = "idle"
    /\ \E sc \in Scenarios :
       \E defect \in {NoDefect} \cup Dropped(RawNames \cup {"levels"}) \cup Regridded :
       \E r \in {Try_era5_to_scm_forcing(
                    WithDefect(defect, rename(merge(RawSfc(sc), RawPl(sc)))))} :
          /\ args' = [fn |-> "era5_to_scm_forcing", scenario |-> sc.name, defect |-> defect]
          /\ ret' = r
    /\ pc' = "era5_to_scm_forcing"
    /\ UNCHANGED <<fs, last>>

\* convert_forcings(era5_surface_file, era5_pressure_levels_file, output_file)
\* called once; ret records what _maybe_open made of the two inputs
CallConvertForcings ==
    /\ pc = "idle"
    /\ \E sc \in Scenarios : \E k1 \in ArgKinds : \E k2 \in ArgKinds :
       \E defect \in {NoDefect} \cup Dropped(RawNames) \cup Regridded :
       \E era5_surface_file \in {Argument(k1, sc.sfc, WithDefect(defect, RawSfc(sc)))} :
       \E era5_pressure_levels_file \in {Argument(k2, sc.pl, WithDefect(defect, RawPl(sc)))} :
          /\ defect.kind # "none" => (k1 = "Dataset" /\ k2 = "Dataset")
          /\ convert_forcings(era5_surface_file, era5_pressure_levels_file, sc.name)
          /\ args' = [fn |-> "convert_forcings", scenario |-> sc.name, defect |-> defect,
                      era5_surface_file |-> era5_surface_file,
                      era5_pressure_levels_file |-> era5_pressure_levels_file]
          /\ ret' = [fn |-> "_maybe_open",
                     ds1 |-> _maybe_open(era5_surface_file),
                     ds2 |-> IF _maybe_open(era5_surface_file).type = "ValueError"
                             THEN NoValue
                             ELSE _maybe_open(era5_pressure_levels_file)]
    /\ pc' = "convert_forcings"

NextCall == CallEra5ToScmForcing \/ CallConvertForcings

SpecCall == InitCall /\ [][NextCall]_vars

(***************************************************************************)
(* Properties of the gradients and the geostrophic wind (SpecGrid).        *)
(***************************************************************************)
TL == Idx(<<NT, NL>>)

AllZero(a) == \A s \in DOMAIN a.val : a.val[s] = Zero
AllNonZero(a) == \A s \in DOMAIN a.val : a.val[s] # Zero /\ a.val[s] # NaN

\* the same value at all 9 grid points of every (time, level)
SpatiallyConstant(var) ==
    \A s \in TL : \A i \in 0 .. 2, j \in 0 .. 2 :
        var.val[s \o <<i, j>>] = var.val[s \o <<1, 1>>]

\* C4: calculate_horizontal_gradients returns (east - west) / (2 dx) and
\* (north - south) / (2 dy) at every (time, level), east and north being the
\* neighbours with the greater longitude and latitude, for ascending and for
\* descending coordinate arrays, dx and dy being the non-negative spacings
\* of calculate_grid_spacing
C4_GradientIsEastMinusWestNorthMinusSouth ==
    pc = "gradients" =>
        LET sp == calculate_grid_spacing(args.lats, args.lons, 1)
            east == IF args.lons[3] >= args.lons[1] THEN 2 ELSE 0
            north == IF args.lats[3] >= args.lats[1] THEN 2 ELSE 0
        IN  /\ sp.dx[1] >= 0 /\ sp.dy[1] >= 0
            /\ \A s \in TL :
                 /\ ret.d_dx.val[s] =
                      Div(Sub(args.var.val[s \o <<1, east>>],
                              args.var.val[s \o <<1, 2 - east>>]), Mul(R(2), sp.dx))
                 /\ ret.d_dy.val[s] =
                      Div(Sub(args.var.val[s \o <<north, 1>>],
                              args.var.val[s \o <<2 - north, 1>>]), Mul(R(2), sp.dy))

\* C5: with a centre latitude other than 0, a height field whose meridional
\* gradient is zero and whose zonal gradient is nonzero at every (time,
\* level) gives u_g exactly zero and v_g nonzero everywhere, and a field with
\* zero zonal and nonzero meridional gradient gives v_g zero and u_g nonzero
C5_GeostrophicWindOfOneSidedGradient ==
    (pc = "geostrophic" /\ args.lats[2] # 0) =>
        LET g == calculate_horizontal_gradients(args.var, args.lats, args.lons, 1)
        IN  /\ (AllZero(g.d_dy) /\ AllNonZero(g.d_dx)) =>
                 (AllZero(ret.u_g) /\ AllNonZero(ret.v_g))
            /\ (AllZero(g.d_dx) /\ AllNonZero(g.d_dy)) =>
                 (AllZero(ret.v_g) /\ AllNonZero(ret.u_g))

C5_Witness ==
    /\ pc = "geostrophic"
    /\ args.lats[2] # 0
    /\ \A s \in TL : /\ args.var.val[s \o <<2, 1>>] = args.var.val[s \o <<0, 1>>]
                     /\ args.var.val[s \o <<1, 2>>] # args.var.val[s \o <<1, 0>>]
    /\ args.lats[3] # args.lats[1]
    /\ args.lons[3] # args.lons[1]
    /\ AllZero(ret.u_g)
    /\ AllNonZero(ret.v_g)

\* C6: a field with the same value at all 9 grid points of every (time,
\* level) has d/dx = 0 and d/dy = 0 exactly at every (time, level), provided
\* the outer latitudes differ and the outer longitudes differ (the centre
\* latitudes of the model are never a pole)
C6_ConstantFieldHasZeroGradient ==
    (/\ pc = "gradients"
     /\ SpatiallyConstant(args.var)
     /\ args.lats[3] # args.lats[1]
     /\ args.lons[3] # args.lons[1]) =>
        /\ AllZero(ret.d_dx)
        /\ AllZero(ret.d_dy)

C6_Witness ==
    /\ pc = "gradients"
    /\ SpatiallyConstant(args.var)
    /\ args.lats[3] # args.lats[1]
    /\ args.lons[3] # args.lons[1]
    /\ args.var.val[<<0, 0, 1, 1>>] # Zero
    /\ args.var.val[<<0, 1, 1, 1>>] # args.var.val[<<0, 0, 1, 1>>]
    /\ args.var.val[<<1, 0, 1, 1>>] # args.var.val[<<0, 0, 1, 1>>]
    /\ AllZero(ret.d_dx)

(***************************************************************************)
(* Properties of the advection (SpecAdv).                                  *)
(***************************************************************************)
ConstantEverywhere(var) ==
    \A s \in DOMAIN var.val : var.val[s] = var.val[<<0, 0, 0, 0>>]

FluxesAt(a, t) == <<a.swnet_top[t], a.swdn_sfc[t], a.lwnet_top[t], a.lwdn_sfc[t]>>

C8_Formula ==
    pc \in {"radiative", "radiative_again"} =>
        /\ ret.shape = <<NT, NL>>
        /\ \A t \in 0 .. NT - 1 : \A l \in 0 .. NL - 1 :
             LET x == FluxesAt(args, t + 1)
                 flux == Sub(Add(Sub(x[1], x[2]), x[3]), x[4])
                 p == args.pressure[l + 1]
                 temp == args.temperature.val[<<t, l>>]
             IN  /\ ret.val[<<t, l>>] = Div(flux, Mul(p, temp))
                 /\ Mul(Mul(ret.val[<<t, l>>], p), temp) = flux

C8_OtherStepsDoNotMatter ==
    (pc = "radiative" /\ pc' = "radiative_again") =>
        \A t \in 0 .. NT - 1 :
            FluxesAt(args', t + 1) = FluxesAt(args, t + 1) =>
                \A l \in 0 .. NL - 1 : ret'.val[<<t, l>>] = ret.val[<<t, l>>]

\* C8: calculate_radiative_heating returns (swnet_top[t] - swdn_sfc[t] +
\* lwnet_top[t] - lwdn_sfc[t]) / (pressure[l] * temperature[t, l]) for every
\* time step t and level l, so dT_dt_rad[t, l] * pressure[l] * temperature[t, l]
\* is the flux difference of step t at every level, and changing a flux of
\* another time step leaves the values of step t as they were
C8_RadiativeHeatingPerTimeStep == []C8_Formula /\ [][C8_OtherStepsDoNotMatter]_vars

C8_Witness ==
    /\ pc = "radiative_again"
    /\ FluxesAt(args, 1) # FluxesAt(args, 2)
    /\ ret.val[<<0, 0>>] # ret.val[<<1, 0>>]
    /\ ret.val[<<0, 0>>] # ret.val[<<0, 1>>]
    /\ ret.val[<<0, 0>>] # Zero
    /\ Mul(Mul(ret.val[<<0, 0>>], args.pressure[1]), args.temperature.val[<<0, 0>>])
         = Mul(Mul(ret.val[<<0, 1>>], args.pressure[2]), args.temperature.val[<<0, 1>>])

(***************************************************************************)
(* Properties of era5_to_scm_forcing and convert_forcings (Spec).          *)
(***************************************************************************)
Called == last.op = "convert_forcings"

\* the dataset convert_forcings handed to era5_to_scm_forcing in the latest call
InputOf(name) ==
    LET sc == CHOOSE x \in Scenarios : x.name = name
    IN  rename(merge(RawSfc(sc), RawPl(sc)))

HasBothAxes(v) == HasDim(v, "levels") /\ HasDim(v, "time")

\* C1: every data variable of the dataset era5_to_scm_forcing returns that
\* has both axes has levels as its leading and time as its trailing axis, of
\* the sizes of the input's axes, whether it was assigned as (time, levels)
\* or selected from an input array at the centre point
C1_LevelsLeadTimeTrails ==
    Called =>
        \A n \in DOMAIN last.computed.vars :
            LET v == last.computed.vars[n]
            IN  HasBothAxes(v) =>
                   /\ v.dims[1] = "levels"
                   /\ v.dims[Len(v.dims)] = "time"
                   /\ v.shape[1] = NL
                   /\ v.shape[Len(v.shape)] = NT

C1_Witness ==
    /\ Called
    /\ NT # NL
    /\ LET in == InputOf(last.scenario)
           out == last.computed.vars
       IN  /\ in.vars.t.dims = <<"time", "levels", "latitude", "longitude">>
           /\ out.T_nudge.dims = <<"levels", "time">>
           /\ out.thil_nudge.dims = <<"levels", "time">>
           /\ out.dT_dt_rad.dims = <<"levels", "time">>
           /\ out.h_advec_thetail.dims = <<"levels", "time">>
           /\ \A t \in 0 .. NT - 1 : \A l \in 0 .. NL - 1 :
                 out.T_nudge.val[<<l, t>>] = in.vars.t.val[<<t, l, 1, 1>>]
           /\ out.T_nudge.val[<<1, 0>>] # out.T_nudge.val[<<0, 1>>]

ForcingVariables ==
    {"w_ls", "omega", "u_nudge", "v_nudge", "T_nudge", "thil_nudge", "qt_nudge",
     "u_g", "v_g", "h_advec_thetail", "v_advec_thetail", "h_advec_qt", "v_advec_qt",
     "p_surf", "T_surf", "dT_dt_rad"}

\* C2: the dataset era5_to_scm_forcing returns holds exactly the 16 fixed
\* data variables, and the attributes of each are the units and long_name of
\* the static table and nothing else: what the input variable carried is gone
C2_SixteenVariablesWithTableAttributes ==
    Called =>
        /\ DOMAIN last.computed.vars = ForcingVariables
        /\ Cardinality(DOMAIN last.computed.vars) = 16
        /\ \A n \in ForcingVariables :
              /\ DOMAIN last.computed.vars[n].attrs = {"units", "long_name"}
              /\ last.computed.vars[n].attrs.units = var_attrs[n].units
              /\ last.computed.vars[n].attrs.long_name = var_attrs[n].long_name

C2_Witness ==
    /\ Called
    /\ LET in == InputOf(last.scenario)
           out == last.computed.vars
       IN  /\ "standard_name" \in DOMAIN in.vars.t.attrs
           /\ in.vars.t.attrs.units # var_attrs.T_nudge.units
           /\ DOMAIN out.T_nudge.attrs = {"units", "long_name"}
           /\ out.T_nudge.attrs.units = "K"
           /\ out.p_surf.attrs.long_name = "surface pressure"
           /\ out.h_advec_qt.attrs.units = "kg kg^-1 s^-1"

\* the values of a (time, levels) array, read as (levels, time)
SameValues(v, a) ==
    /\ v.shape = <<a.shape[2], a.shape[1]>>
    /\ \A t \in 0 .. a.shape[1] - 1 : \A l \in 0 .. a.shape[2] - 1 :
          v.val[<<l, t>>] = a.val[<<t, l>>]

\* C3: in the output of era5_to_scm_forcing h_advec_qt equals h_advec_thetail
\* and v_advec_qt equals v_advec_thetail at every (time, level): both pairs
\* of slots hold the advection of potential temperature, whatever the
\* specific humidity of the input is
C3_QtSlotsHoldThetaAdvection ==
    Called =>
        LET out == last.computed.vars
            adv_theta == AdvectionOfTheta(InputOf(last.scenario))
        IN  /\ out.h_advec_qt.val = out.h_advec_thetail.val
            /\ out.v_advec_qt.val = out.v_advec_thetail.val
            /\ out.h_advec_qt.dims = out.h_advec_thetail.dims
            /\ out.v_advec_qt.dims = out.v_advec_thetail.dims
            /\ SameValues(out.h_advec_qt, adv_theta.h_advec)
            /\ SameValues(out.v_advec_qt, adv_theta.v_advec)

C3_Witness ==
    /\ Called
    /\ LET out == last.computed.vars
           adv_qt == AdvectionOfQ(InputOf(last.scenario))
       IN  /\ ~SameValues(out.h_advec_qt, adv_qt.h_advec)
           /\ ~SameValues(out.v_advec_qt, adv_qt.v_advec)
           /\ ~AllZero(adv_qt.h_advec)
           /\ ~AllZero(out.h_advec_qt)
           /\ out.h_advec_qt.val = out.h_advec_thetail.val
           /\ out.v_advec_qt.val = out.v_advec_thetail.val

\* the call named an output file and to_netcdf did not raise
Wrote == Called /\ last.output_file # None /\ last.write = "ok"

\* after a call that named an output file: the file exists and its group
\* forcing holds the result of that call
C9_FileHoldsLatestResult ==
    Wrote =>
        /\ exists(fs, last.output_file.value)
        /\ "forcing" \in DOMAIN fs[last.output_file.value].groups
        /\ fs[last.output_file.value].groups["forcing"] = last.returned
        /\ last.returned = last.computed

\* one call of convert_forcings, from the state before it to the state after
C9_CreateAppendOrNothing ==
    (last'.op = "convert_forcings") =>
        IF last'.output_file = None
        THEN fs' = fs /\ last'.mode = "none"
        ELSE LET p == last'.output_file.value
             IN  /\ last'.mode = (IF exists(fs, p) THEN "a" ELSE "w")
                 /\ \A q \in OutPaths \ {p} : fs'[q] = fs[q]
                 /\ (last'.write = "ok" /\ ~exists(fs, p)) =>
                       /\ exists(fs', p)
                       /\ DOMAIN fs'[p].groups = {"forcing"}
                       /\ fs'[p].groups["forcing"] = last'.returned
                 /\ (last'.write = "ok" /\ exists(fs, p)) =>
                       /\ exists(fs', p)
                       /\ DOMAIN fs'[p].groups = DOMAIN fs[p].groups \cup {"forcing"}
                       /\ fs'[p].groups["forcing"] = last'.returned
                       /\ \A g \in DOMAIN fs[p].groups \ {"forcing"} :
                             fs'[p].groups[g] = fs[p].groups[g]

\* C9: in any sequence of convert_forcings calls whose writes go through, a
\* call with an output_file that does not exist creates the container in
\* write mode with the result in group forcing; a call with an output_file
\* that exists opens it in append mode and writes group forcing, every other
\* group of the container staying as it was; a call with output_file = None
\* writes no file; and after every call that names an output file the file
\* exists and its group forcing holds the result of the latest call
C9_CreateThenAppend == []C9_FileHoldsLatestResult /\ [][C9_CreateAppendOrNothing]_vars

C9_Witness ==
    /\ Wrote
    /\ last.mode = "a"
    /\ LET f == fs[last.output_file.value]
       IN  /\ f.exists
           /\ {"/", "initial", "scalars", "forcing"} \subseteq DOMAIN f.groups
           /\ f.groups["initial"] = [template |-> "initial"]
           /\ f.groups["forcing"] = last.computed

\* C10 as stated: convert_forcings returns the dataset era5_to_scm_forcing
\* computed whether or not the write of the output file succeeds
C10_ReturnsWhetherOrNotWriteSucceeds ==
    Called => (last.outcome = "returned" /\ last.returned = last.computed)

\* C10, amended: convert_forcings returns the dataset era5_to_scm_forcing
\* computed when output_file is None or the write succeeds; when the write
\* raises, the exception leaves convert_forcings and the caller receives no
\* dataset
C10_ReturnsUnlessWriteRaises ==
    Called =>
        /\ last.write \in {"none", "ok"} =>
              (last.outcome = "returned" /\ last.returned = last.computed)
        /\ last.write = "failed" =>
              (last.outcome = "raised" /\ last.returned = NoValue)

C10_Witness ==
    /\ Called
    /\ last.output_file # None
    /\ last.write = "failed"
    /\ last.outcome = "raised"
    /\ DOMAIN last.computed.vars = ForcingVariables
    /\ last.returned # last.computed

(***************************************************************************)
(* Properties of single calls on faulty inputs (SpecCall).                 *)
(***************************************************************************)
ScenarioOf(name) == CHOOSE x \in Scenarios : x.name = name

\* what _maybe_open made of arg, the file behind a path holding content
ResolvedByType(arg, res, content) ==
    /\ arg.type = "str" => (res.type = "Dataset" /\ res.value = content)
    /\ arg.type = "Dataset" => (res.type = "Dataset" /\ res.value = arg.value)
    /\ arg.type \notin {"str", "Dataset"} => res.type = "ValueError"

IsInput(arg) == arg.type \in {"str", "Dataset"}

C13_ByType ==
    pc = "convert_forcings" =>
        /\ ResolvedByType(args.era5_surface_file, ret.ds1, RawSfc(ScenarioOf(args.scenario)))
        /\ IsInput(args.era5_surface_file) =>
              ResolvedByType(args.era5_pressure_levels_file, ret.ds2,
                             RawPl(ScenarioOf(args.scenario)))
        /\ (~IsInput(args.era5_surface_file) \/ ~IsInput(args.era5_pressure_levels_file)) =>
              /\ last.outcome = "raised"
              /\ last.error = "ValueError"
              /\ last.computed = NoValue
              /\ last.returned = NoValue
              /\ last.write = "none"

C13_NothingWritten ==
    (/\ pc' = "convert_forcings"
     /\ (~IsInput(args'.era5_surface_file) \/ ~IsInput(args'.era5_pressure_levels_file))) =>
        fs' = fs

\* C13: _maybe_open resolves its argument by type: a string is opened as
\* the dataset of that path, a dataset is returned as it is, without a file
\* being opened, and any other argument (None included) raises ValueError;
\* so convert_forcings called without a surface or pressure-level input
\* raises ValueError before era5_to_scm_forcing has computed anything and
\* leaves every file as it was
C13_MaybeOpenByType == []C13_ByType /\ [][C13_NothingWritten]_vars

C13_Witness ==
    /\ pc = "convert_forcings"
    /\ args.era5_surface_file.type = "Dataset"
    /\ args.era5_pressure_levels_file.type = "NoneType"
    /\ args.defect.kind = "none"
    /\ ret.ds1.type = "Dataset"
    /\ ret.ds1.value = args.era5_surface_file.value
    /\ ret.ds2.type = "ValueError"
    /\ last.outcome = "raised"
    /\ last.error = "ValueError"
    /\ last.output_file # None
    /\ ~exists(fs, last.output_file.value)

LookupErrors == {"AttributeError", "KeyError"}

\* the input of the call lacks one of the names era5_to_scm_forcing reads
LacksAName(a) == a.defect.kind = "drop"

C11_Raises ==
    /\ (pc = "era5_to_scm_forcing" /\ LacksAName(args)) =>
          /\ ret.outcome = "raised"
          /\ ret.error \in LookupErrors
          /\ "value" \notin DOMAIN ret
    /\ (pc = "convert_forcings" /\ LacksAName(args)) =>
          /\ last.outcome = "raised"
          /\ last.error \in LookupErrors
          /\ last.computed = NoValue
          /\ last.returned = NoValue
          /\ last.write = "none"

C11_WritesNoFile ==
    (pc' = "convert_forcings" /\ LacksAName(args')) => fs' = fs

OtherGrid(a) == a.defect.kind = "grid"

\* the input era5_to_scm_forcing was called on
CoreInput(a) ==
    WithDefect(a.defect, rename(merge(RawSfc(ScenarioOf(a.scenario)),
                                      RawPl(ScenarioOf(a.scenario)))))

\* the output computed from the grid points at indices 0, 1 and 2 alone
OutputOfFirstThree(a) == era5_to_scm_forcing(Regrid(CoreInput(a), 3, 3))

\* C12 as stated: for every input whose latitude or longitude dimension has
\* a size other than 3, smaller or larger, era5_to_scm_forcing raises no
\* error and returns the output computed from the points at indices 0, 1, 2
C12_SilentForEveryGrid ==
    (pc = "era5_to_scm_forcing" /\ OtherGrid(args)) =>
        /\ ret.outcome = "returned"
        /\ ret.value = OutputOfFirstThree(args)

\* C12, amended: era5_to_scm_forcing validates no shape; when the latitude
\* and the longitude dimension both have at least 3 points and one of them
\* more, the call raises no error and returns the output computed from the
\* points at indices 0, 1 and 2; when one of them has fewer than 3 points,
\* the indexing raises IndexError and no output is returned
C12_SilentOnLargerGrids ==
    (pc = "era5_to_scm_forcing" /\ OtherGrid(args)) =>
        IF args.defect.nlat >= 3 /\ args.defect.nlon >= 3
        THEN /\ ret.outcome = "returned"
             /\ ret.value = OutputOfFirstThree(args)
        ELSE /\ ret.outcome = "raised"
             /\ ret.error = "IndexError"
             /\ "value" \notin DOMAIN ret

C12_Witness ==
    /\ pc = "era5_to_scm_forcing"
    /\ OtherGrid(args)
    /\ args.defect.nlat > 3
    /\ args.defect.nlon > 3
    /\ CoreInput(args).vars.z.val[<<0, 0, 3, 3>>] # CoreInput(args).vars.z.val[<<0, 0, 1, 1>>]
    /\ Len(CoreInput(args).coords.latitude) = args.defect.nlat
    /\ ret.outcome = "returned"
    /\ ~AllZero(ret.value.vars.v_g)
    /\ ~AllZero(ret.value.vars.h_advec_thetail)
    /\ ret.value = OutputOfFirstThree(args)

====
